---------------------------- MODULE Spec2Model ----------------------------
(***************************************************************************)
(* RobotS actor runtime: the Future completion state machine and its       *)
(* extractor (src/src/actors/future.rs), the ActorRef dispatch surface     *)
(* (src/src/actors/actor_ref.rs) and the InternalState test actor          *)
(* (src/test/test.rs).                                                     *)
(***************************************************************************)
EXTENDS Naturals, Sequences, FiniteSets, TLC

\* ------------------------------------------------------------------ bounds
MaxValue == 2
MaxHandled == 3
MaxTold == 3
SetCount == 2
NumWorkers == 2
MaxSystemPending == 2
MaxCalls == 3
MaxExtractorTold == 3
MaxDepth == 3

\* ------------------------------------------------------------- Future data
\* Payloads a Complete may carry.
Values == 1..MaxValue

\* What a read through a dangling Box yields when the freed allocation has
\* been reused: some bit pattern that is not the payload.
Garbage == 0

\* Transformation steps (the closures a Calculation carries).
\*   NewValue : returns Computing(value + 1)
\*   Done     : returns Terminated
\*   Forward  : tells the value to the extractor and returns Extracted
\*   Bad      : returns Uncompleted
Funcs == {"NewValue", "Done", "Forward", "Bad"}

Uncompleted == [tag |-> "Uncompleted"]
Terminated == [tag |-> "Terminated"]
Extracted == [tag |-> "Extracted"]
Computing(v) == [tag |-> "Computing", value |-> v]
\* Option::None in the state slot (after state.take()).
Empty == [tag |-> "None"]

Complete(v, unique) == [type |-> "Complete", value |-> v, unique |-> unique]
Calculation(f) == [type |-> "Calculation", func |-> f]
\* Any message that is not a FutureMessages.
Other == [type |-> "Other"]

FutureMessages ==
    {Complete(v, u) : v \in Values, u \in BOOLEAN}
        \cup {Calculation(f) : f \in Funcs}
        \cup {Other}

VARIABLES
    state,                   \* Future.state : Mutex<Option<FutureState>>
    scheduled_calculations,  \* Future.scheduled_calculations : VecDeque
    outcome,                 \* how the last handling by the Future ended
    handling,                \* the last handling: message, state and queue before it, steps it ran
    log,                     \* the messages the Future has handled, in order
    killed,                  \* context.kill_me() has been invoked on the Future
    extractor_mailbox,       \* messages told to the FutureExtractor
    system_mailbox,          \* the receiver cell's system mailbox
    mailbox,                 \* the receiver cell's user mailbox (envelopes)
    actor,                   \* the receiver's InternalState instance
    lifecycle,               \* the receiver cell: Created, Running or Failed
    lock,                    \* the worker executing the receiver's handler, 0 if none
    current,                 \* the item that worker took from the mailboxes
    res,                     \* the Res values sent through InternalState.sender
    replies,                 \* the values told back to senders of Get
    told,                    \* every envelope tell_to delivered, in call order
    delivered,               \* every envelope handed to the actor's receive, in order
    crash,                   \* the last failure: its place in delivered, the mailbox then
    picked,                  \* the last pick of handle(): its kind, what was pending
    outstanding,             \* system messages sent to the receiver and not yet processed
    executing,               \* the workers inside the receiver's handler
    call,                    \* the last operation called on a Ref, and what it met
    channel,                 \* what went through the asker's channel, in order
    extractor_killed,        \* the FutureExtractor called kill_me
    extractor_log,           \* the messages the FutureExtractor has handled
    derived                  \* the last ActorPath derived with child(), and from what

futureVars == <<state, scheduled_calculations, outcome, handling, log, killed,
                extractor_mailbox>>

cellVars == <<system_mailbox, mailbox, actor, lifecycle, lock, current, res,
              replies, told, delivered, crash, picked, outstanding, executing>>

refVars == <<call>>

extractorVars == <<channel, extractor_killed, extractor_log>>

pathVars == <<derived>>

auxVars == <<refVars, extractorVars, pathVars>>

vars == <<futureVars, cellVars, auxVars>>

\* ------------------------------------------------------ transformation steps
\* The FutureState a step returns for the value it is given.
StepState(func, value) ==
    CASE func = "NewValue" ->
            Computing(IF value = Garbage THEN Garbage ELSE value + 1)
      [] func = "Done" -> Terminated
      [] func = "Forward" -> Extracted
      [] func = "Bad" -> Uncompleted

\* The messages a step sends through its ActorCell while it runs.
StepTell(func, value) ==
    IF func = "Forward" THEN <<[type |-> "T", value |-> value]>> ELSE <<>>

\* What one handling leaves behind: the state slot, the pending queue, how
\* the handling ended, the steps it applied (<<func, value>> pairs), whether
\* it called kill_me, and the messages the applied steps sent. under_lock
\* is what the handling did while a guard of self.state was alive, out of
\* "step" (a step ran), "kill_me" and "lock" (self.state locked again).
Result(st, q, out, ran, kill, tell) ==
    [state |-> st, scheduled |-> q, outcome |-> out, ran |-> ran,
     kill |-> kill, tell |-> tell, under_lock |-> {}]

\* self.state.lock() by a thread that already holds the guard: std's Mutex
\* never returns from it; it deadlocks or panics.
RelockOutcomes == {"deadlocked", "panicked"}

\* What the Box built by Box::from_raw(Arc::get_mut(&mut msg)) holds once
\* msg, the only Arc, has been dropped at the end of the Complete arm: the
\* payload v while the freed allocation is untouched, other bits once reused.
FromRaw(v) == {v, Garbage}

\* Future::do_computation. slot is the content of self.state when it is
\* called, held says whether the calling thread holds the state guard.
DoComputation(slot, q, held, value, func, relock) ==
    IF held
    THEN [Result(slot, q, relock, <<>>, FALSE, <<>>) EXCEPT !.under_lock = {"lock"}]
    ELSE LET new == StepState(func, value)
             ran == <<<<func, value>>>>
             tell == StepTell(func, value)
         IN  \* the guard taken at the top lives to the end of the function
             CASE new.tag \in {"Terminated", "Extracted"} ->
                     [Result(new, q, "returned", ran, TRUE, tell)
                         EXCEPT !.under_lock = {"step", "kill_me"}]
               [] new.tag = "Uncompleted" ->
                     [Result(new, q, "panicked", ran, FALSE, tell)
                         EXCEPT !.under_lock = {"step"}]
               [] OTHER -> [Result(new, q, "returned", ran, FALSE, tell)
                               EXCEPT !.under_lock = {"step"}]

\* A plausible slip: the step is queued at the head.
PushFront(q, func) == <<func>> \o q

\* VecDeque::push_back.
PushBack(q, func) == Append(q, func)

\* A plausible slip: the state taken out of the slot is not put back.
CalculationNotRestored(s, q) ==
    Result(Empty, q, "panicked", <<>>, FALSE, <<>>)

\* Calculation on a Terminated or Extracted Future: *state = Some(s), then
\* panic!("A closure was called on ...").
CalculationAfterEnd(s, q) ==
    Result(s, q, "panicked", <<>>, FALSE, <<>>)

\* Future::receive, FutureMessages::Complete(msg). read is what the stored
\* Box yields after msg is dropped.
ReceiveComplete(st, q, msg, read) ==
    CASE st.tag = "Uncompleted" ->
            IF ~msg.unique
            THEN \* Arc::get_mut(..) is None: unwrap() panics before the store
                 Result(st, q, "panicked", <<>>, FALSE, <<>>)
            ELSE IF q # <<>>
                 THEN \* pop_front() then panic!("I should be computing")
                      Result(Computing(read), Tail(q), "panicked", <<>>, FALSE, <<>>)
                 ELSE Result(Computing(read), q, "returned", <<>>, FALSE, <<>>)
      [] st.tag = "None" -> Result(st, q, "panicked", <<>>, FALSE, <<>>)
      [] OTHER ->
            \* panic!("Tried to complete a Future twice")
            Result(st, q, "panicked", <<>>, FALSE, <<>>)

\* Future::receive, FutureMessages::Calculation(func).
ReceiveCalculation(st, q, func, relock) ==
    CASE st.tag = "None" ->
            \* state.take().expect("lol")
            Result(st, q, "panicked", <<>>, FALSE, <<>>)
      [] st.tag = "Computing" ->
            \* the guard `state` is alive and the slot was emptied by take()
            DoComputation(Empty, q, TRUE, st.value, func, relock)
      [] st.tag = "Uncompleted" ->
            Result(st, PushBack(q, func), "returned", <<>>, FALSE, <<>>)
      [] OTHER -> CalculationAfterEnd(st, q)

\* impl Actor for Future: receive.
FutureReceive(st, q, msg, read, relock) ==
    CASE msg.type = "Complete" -> ReceiveComplete(st, q, msg, read)
      [] msg.type = "Calculation" -> ReceiveCalculation(st, q, msg.func, relock)
      [] OTHER -> Result(st, q, "returned", <<>>, FALSE, <<>>)

\* ------------------------------------------------------------ ActorPath
\* ActorPath::new_local: the Local variant.
NewLocal(path) == [variant |-> "Local", logical_path |-> path]

\* ActorPath::new_distant: the Distant variant, holding a ConnectionInfo.
NewDistant(distant_logical_path, addr_port) ==
    [variant |-> "Distant", distant_logical_path |-> distant_logical_path,
     addr_port |-> addr_port]

\* ActorPath::logical_path.
LogicalPath(p) ==
    IF p.variant = "Local" THEN p.logical_path ELSE p.distant_logical_path

\* A plausible slip: the separator is left out of the format string.
ChildNoSeparator(p, name) ==
    IF p.variant = "Local"
    THEN [panicked |-> FALSE, path |-> NewLocal(p.logical_path \o name)]
    ELSE [panicked |-> TRUE, path |-> p]

\* ActorPath::child: format!("{}/{}", s, name) for a Local path, a panic
\* for a Distant one (path is then the receiver, nothing being returned).
Child(p, name) ==
    IF p.variant = "Local"
    THEN [panicked |-> FALSE, path |-> NewLocal(p.logical_path \o "/" \o name)]
    ELSE [panicked |-> TRUE, path |-> p]

\* The paths derivation starts from: the root's, an actor's, the user
\* guardian's, a distant actor's.
RootPaths ==
    {NewLocal("/"), NewLocal("/a"), NewLocal("/user"),
     NewDistant("/user/distant/actor", "127.0.0.1:12345")}

\* The names given to children.
Names == {"x", "y", "receiver"}

\* A path nothing was derived from yet.
Underived(p) ==
    [path |-> p, parent |-> p, name |-> "", panicked |-> FALSE, depth |-> 0]

\* ------------------------------------------------------------- ActorRef
\* ActorRef: inner_actor is None (distant), Actor (a cell) or Cthulhu.
ActorRef(inner, path) == [inner |-> inner, path |-> path]

\* The Refs of the test: actor_of(props, "sender") and actor_of(props, "receiver").
SenderRef == ActorRef("Actor", NewLocal("/user/sender"))
OtherRef == ActorRef("Actor", NewLocal("/user/other"))
ReceiverRef == ActorRef("Actor", NewLocal("/user/receiver"))
Senders == {SenderRef, OtherRef}

\* ActorRef::new_distant: no inner actor.
DistantRef ==
    ActorRef("None", NewDistant("/user/distant/actor", "127.0.0.1:12345"))

\* ActorRef::with_cthulhu.
CthulhuRef == ActorRef("Cthulhu", NewLocal("/"))

\* ActorRef::path.
RefPath(ref) == ref.path

\* InternalStateMessage.
Set(v) == [kind |-> "Set", value |-> v]
Get == [kind |-> "Get"]
Panic == [kind |-> "Panic"]

\* SystemMessage.
SystemMessages == {"Start", "Restart", "Failure"}

\* An envelope of the user mailbox: the message and its sender's Ref. id is
\* the rank of the tell_to call that made it (bookkeeping, not program state).
Envelope(message, sender, id) ==
    [message |-> message, sender |-> sender, id |-> id]

NoEnvelope == [kind |-> "none"]

\* ActorCell::receive_message: the envelope joins the tail of the mailbox.
ReceiveMessage(mb, envelope) == Append(mb, envelope)

\* ActorCell::receive_system_message: joins the tail of the system mailbox.
CellReceiveSystemMessage(smb, system_message) == Append(smb, system_message)

\* What a Ref operation did: panicked or not, and the two mailboxes after it.
Delivery(panicked, smb, mb) ==
    [panicked |-> panicked, system_mailbox |-> smb, mailbox |-> mb]

\* A plausible slip: the system message is routed like a regular message.
ReceiveSystemMessageAsUser(ref, smb, mb, system_message) ==
    CASE ref.inner = "None" -> Delivery(TRUE, smb, mb)
      [] ref.inner = "Actor" ->
            Delivery(FALSE, smb,
                     ReceiveMessage(mb, Envelope([kind |-> system_message], ref, 0)))
      [] OTHER -> Delivery(FALSE, smb, mb)

\* ActorRef::receive_system_message on a Ref to the receiver cell.
ReceiveSystemMessage(ref, smb, mb, system_message) ==
    CASE ref.inner = "None" -> Delivery(TRUE, smb, mb)
      [] ref.inner = "Actor" ->
            Delivery(FALSE, CellReceiveSystemMessage(smb, system_message), mb)
      [] OTHER -> Delivery(FALSE, smb, mb)

\* A plausible slip: the envelope is put at the head of the mailbox.
RefReceiveAtHead(ref, smb, mb, envelope) ==
    CASE ref.inner = "None" -> Delivery(TRUE, smb, mb)
      [] ref.inner = "Actor" -> Delivery(FALSE, smb, <<envelope>> \o mb)
      [] OTHER -> Delivery(FALSE, smb, mb)

\* A plausible slip: a message for a distant Ref is dropped silently.
RefReceiveDistantDropped(ref, smb, mb, envelope) ==
    CASE ref.inner = "Actor" -> Delivery(FALSE, smb, ReceiveMessage(mb, envelope))
      [] OTHER -> Delivery(FALSE, smb, mb)

\* ActorRef::receive on a Ref to the receiver cell.
RefReceive(ref, smb, mb, envelope) ==
    CASE ref.inner = "None" -> Delivery(TRUE, smb, mb)
      [] ref.inner = "Actor" -> Delivery(FALSE, smb, ReceiveMessage(mb, envelope))
      [] OTHER -> Delivery(FALSE, smb, mb)

\* A plausible slip: the message is delivered twice.
TellToTwice(self, to, smb, mb, message, id) ==
    IF self.inner = "None"
    THEN Delivery(TRUE, smb, mb)
    ELSE LET once == RefReceive(to, smb, mb, Envelope(message, self, id))
         IN  RefReceive(to, smb, once.mailbox, Envelope(message, self, id))

\* A plausible slip: the sender's inner actor is not required.
TellToFromAnyone(self, to, smb, mb, message, id) ==
    RefReceive(to, smb, mb, Envelope(message, self, id))

\* ActorRef::tell_to.
TellTo(self, to, smb, mb, message, id) ==
    IF self.inner = "None"
    THEN Delivery(TRUE, smb, mb)
    ELSE RefReceive(to, smb, mb, Envelope(message, self, id))

\* ActorRef::handle: what the Ref dispatches to.
RefHandle(ref) ==
    CASE ref.inner = "None" -> "panicked"
      [] ref.inner = "Actor" -> "handle_envelope"
      [] OTHER -> "cthulhu"

\* ActorCell::handle_envelope picks the next item: a system message when one
\* is pending, the head of the user mailbox otherwise.
NextItem(smb, mb) ==
    IF smb # <<>>
    THEN [kind |-> "system", system_message |-> Head(smb)]
    ELSE [kind |-> "user", envelope |-> Head(mb)]

\* -------------------------------------------------------- InternalState
\* A plausible slip: the rebuilt actor keeps a non-initial counter.
InternalStateStale == [last |-> 1]

\* InternalState::new.
InternalStateNew == [last |-> 0]

\* What InternalState::receive did: the actor after it, the Res values it
\* sent, the values it told back to the sender, whether it panicked.
Handled(a, sent, back, panicked) ==
    [actor |-> a, res |-> sent, replies |-> back, panicked |-> panicked]

\* impl Actor for InternalState: receive. goal is the value that signals
\* Res::Ok (the last value the sender tells).
InternalStateReceive(a, message, goal) ==
    CASE message.kind = "Get" -> Handled(a, <<>>, <<a.last>>, FALSE)
      [] message.kind = "Set" ->
            LET new == IF message.value <= a.last THEN a.last ELSE message.value
                err == IF message.value <= a.last THEN <<"Err">> ELSE <<>>
                ok == IF new = goal THEN <<"Ok">> ELSE <<>>
            IN  Handled([last |-> new], err \o ok, <<>>, FALSE)
      [] message.kind = "Panic" -> Handled(a, <<>>, <<>>, TRUE)
      [] OTHER -> Handled(a, <<>>, <<>>, FALSE)

\* ------------------------------------------------------------ the Future
\* A Future instance handles messages until a handling panics or blocks
\* (the failure leaves receive by unwinding; the cell then replaces the
\* instance) or until it has been killed.
Live == outcome \in {"none", "returned"} /\ ~killed

\* Future::new.
FutureNew ==
    /\ state = Uncompleted
    /\ scheduled_calculations = <<>>
    /\ outcome = "none"
    /\ handling = [msg |-> Other, before |-> Uncompleted, queue |-> <<>>,
                   ran |-> <<>>, under_lock |-> {}]
    /\ log = <<>>
    /\ killed = FALSE
    /\ extractor_mailbox = <<>>

\* actor_of(props, "receiver"): a Created cell holding a fresh InternalState,
\* with Start sent to it.
ActorOf ==
    LET d == ReceiveSystemMessage(ReceiverRef, <<>>, <<>>, "Start")
    IN  /\ system_mailbox = d.system_mailbox
        /\ mailbox = d.mailbox
        /\ actor = InternalStateNew
        /\ lifecycle = "Created"
        /\ lock = 0
        /\ current = NoEnvelope
        /\ res = <<>>
        /\ replies = <<>>
        /\ told = <<>>
        /\ delivered = <<>>
        /\ crash = [at |-> 0, id |-> 0, pending |-> <<>>]
        /\ picked = [kind |-> "none", system_pending |-> 0, user_pending |-> 0,
                     outstanding |-> 0, lifecycle |-> "Created"]
        /\ outstanding = 1
        /\ executing = {}

\* No operation has been called on a Ref yet.
NoCall ==
    call = [op |-> "none", count |-> 0]

\* FutureExtractor::new: nothing sent through the channel yet.
FutureExtractorNew ==
    /\ channel = <<>>
    /\ extractor_killed = FALSE
    /\ extractor_log = <<>>

\* ActorPath::new_local("/"), as with_cthulhu builds it.
PathNew == derived = Underived(CthulhuRef.path)

AuxInit == NoCall /\ FutureExtractorNew /\ PathNew

Init == FutureNew /\ ActorOf /\ AuxInit

\* The Future handles one message.
Receive(msg) ==
    /\ Live
    /\ Len(log) < MaxHandled
    /\ \E read \in (IF msg.type = "Complete" THEN FromRaw(msg.value) ELSE {Garbage}),
          relock \in RelockOutcomes :
          LET r == FutureReceive(state, scheduled_calculations, msg, read, relock)
          IN  /\ state' = r.state
              /\ scheduled_calculations' = r.scheduled
              /\ outcome' = r.outcome
              /\ killed' = r.kill
              /\ extractor_mailbox' = extractor_mailbox \o r.tell
              /\ handling' = [msg |-> msg, before |-> state,
                              queue |-> scheduled_calculations, ran |-> r.ran,
                              under_lock |-> r.under_lock]
              /\ log' = Append(log, msg)
    /\ UNCHANGED <<cellVars, auxVars>>

Next == \E msg \in FutureMessages : Receive(msg)

Spec == Init /\ [][Next]_vars

\* Every value of the FutureState type, as the content of the state slot.
FutureStates ==
    {Uncompleted, Terminated, Extracted} \cup {Computing(v) : v \in Values}

\* Future::receive as a function of the state slot: the handled Future
\* starts in any FutureState.
InitAnyState ==
    /\ state \in FutureStates
    /\ scheduled_calculations = <<>>
    /\ outcome = "none"
    /\ handling = [msg |-> Other, before |-> state, queue |-> <<>>,
                   ran |-> <<>>, under_lock |-> {}]
    /\ log = <<>>
    /\ killed = FALSE
    /\ extractor_mailbox = <<>>
    /\ ActorOf
    /\ AuxInit

SpecAnyState == InitAnyState /\ [][Next]_vars

\* ------------------------------------------------------ the receiver cell
Workers == 1..NumWorkers

\* The Sets the sender has told so far.
SetsTold == Len(SelectSeq(told, LAMBDA e : e.message.kind = "Set"))

\* What a sender may tell next: the sender counts Set(1), Set(2), ... up
\* (the loop of read_messages_in_order); anyone may tell Get or Panic.
MayTell(sender) ==
    {Get, Panic} \cup
        (IF sender = SenderRef /\ SetsTold < SetCount THEN {Set(SetsTold + 1)} ELSE {})

\* sender.tell_to(receiver, message).
Tell(sender, message) ==
    /\ Len(told) < MaxTold
    /\ LET id == Len(told) + 1
           d == TellTo(sender, ReceiverRef, system_mailbox, mailbox, message, id)
       IN  /\ ~d.panicked
           /\ system_mailbox' = d.system_mailbox
           /\ mailbox' = d.mailbox
           /\ told' = Append(told, Envelope(message, sender, id))
    /\ UNCHANGED <<actor, lifecycle, lock, executing, current, res, replies, delivered,
                   crash, picked, outstanding>>
    /\ UNCHANGED <<futureVars, auxVars>>

\* A child of the receiver reports its failure: Failure(child) is sent to
\* the receiver as a system message.
ChildFailure ==
    /\ outstanding < MaxSystemPending
    /\ LET d == ReceiveSystemMessage(ReceiverRef, system_mailbox, mailbox, "Failure")
       IN  /\ ~d.panicked
           /\ system_mailbox' = d.system_mailbox
           /\ mailbox' = d.mailbox
    /\ outstanding' = outstanding + 1
    /\ UNCHANGED <<actor, lifecycle, lock, executing, current, res, replies, told,
                   delivered, crash, picked>>
    /\ UNCHANGED <<futureVars, auxVars>>

\* A plausible slip: the cell's lock is not looked at.
CellLockIgnored(l) == TRUE

\* The cell's lock is free: no worker is handling a message of the actor.
CellLockFree(l) == l = 0

\* receiver.handle() on worker w, up to the call of the actor's code: the
\* cell's lock is taken and the next item leaves its mailbox.
HandleBegin(w) ==
    /\ CellLockFree(lock)
    /\ RefHandle(ReceiverRef) = "handle_envelope"
    /\ system_mailbox # <<>> \/ mailbox # <<>>
    /\ LET item == NextItem(system_mailbox, mailbox)
       IN  /\ current' = item
           /\ picked' = [kind |-> item.kind,
                         system_pending |-> Len(system_mailbox),
                         user_pending |-> Len(mailbox),
                         outstanding |-> outstanding,
                         lifecycle |-> lifecycle]
           /\ IF item.kind = "system"
              THEN /\ system_mailbox' = Tail(system_mailbox)
                   /\ UNCHANGED <<mailbox, delivered>>
              ELSE /\ mailbox' = Tail(mailbox)
                   /\ delivered' = Append(delivered, item.envelope)
                   /\ UNCHANGED system_mailbox
    /\ lock' = w
    /\ executing' = executing \cup {w}
    /\ UNCHANGED <<actor, lifecycle, res, replies, told, crash, outstanding>>
    /\ UNCHANGED <<futureVars, auxVars>>

\* The rest of handle() on worker w: the item is processed and the lock
\* released. A system message: Start runs pre_start, Restart rebuilds the
\* actor from its recipe and runs post_restart, Failure is the supervisor's
\* business with the child. A user message goes to the actor's receive; a
\* failure there is caught, the message is dropped and Restart is sent to
\* the cell.
HandleEnd(w) ==
    /\ lock = w
    /\ IF current.kind = "system"
       THEN /\ actor' = IF current.system_message = "Restart"
                        THEN InternalStateNew ELSE actor
            /\ lifecycle' = IF current.system_message \in {"Start", "Restart"}
                            THEN "Running" ELSE lifecycle
            /\ outstanding' = outstanding - 1
            /\ UNCHANGED <<system_mailbox, mailbox, res, replies, crash>>
       ELSE LET e == current.envelope
                r == InternalStateReceive(actor, e.message, SetCount)
                d == ReceiveSystemMessage(ReceiverRef, system_mailbox, mailbox, "Restart")
            IN  IF r.panicked
                THEN /\ system_mailbox' = d.system_mailbox
                     /\ mailbox' = d.mailbox
                     /\ outstanding' = outstanding + 1
                     /\ lifecycle' = "Failed"
                     /\ crash' = [at |-> Len(delivered), id |-> e.id, pending |-> mailbox]
                     /\ UNCHANGED <<actor, res, replies>>
                ELSE /\ actor' = r.actor
                     /\ res' = res \o r.res
                     /\ replies' = replies \o
                            [i \in 1..Len(r.replies) |->
                                [value |-> r.replies[i], to |-> e.sender,
                                 at |-> Len(delivered)]]
                     /\ UNCHANGED <<system_mailbox, mailbox, outstanding,
                                    lifecycle, crash>>
    /\ lock' = 0
    /\ executing' = executing \ {w}
    /\ current' = NoEnvelope
    /\ UNCHANGED <<told, delivered, picked>>
    /\ UNCHANGED <<futureVars, auxVars>>

NextCell ==
    \/ \E sender \in Senders : \E message \in MayTell(sender) : Tell(sender, message)
    \/ ChildFailure
    \/ \E w \in Workers : HandleBegin(w)
    \/ \E w \in Workers : HandleEnd(w)

SpecCell == Init /\ [][NextCell]_vars

\* ------------------------------------------------------- FutureExtractor
\* What may be told to a FutureExtractor<T>: a boxed T, or a boxed value of
\* another type U.
ExtractorMessages == [type : {"T", "U"}, value : Values]

\* A plausible slip: the extractor stays alive after sending.
ExtractorReceiveNoKill(message, chan) ==
    IF message.type = "T"
    THEN [channel |-> Append(chan, message.value), kill_me |-> FALSE]
    ELSE [channel |-> chan, kill_me |-> FALSE]

\* A plausible slip: whatever arrives is sent, without the downcast.
ExtractorReceiveAnyType(message, chan) ==
    [channel |-> Append(chan, message.value), kill_me |-> TRUE]

\* FutureExtractor::receive: a message that downcasts to T is sent through
\* the channel and the extractor asks to be killed; any other is dropped.
ExtractorReceive(message, chan) ==
    IF message.type = "T"
    THEN [channel |-> Append(chan, message.value), kill_me |-> TRUE]
    ELSE [channel |-> chan, kill_me |-> FALSE]

\* An actor that called kill_me handles no further message.
ExtractorLive == ~extractor_killed

\* A message reaches the extractor's mailbox: the forwarded result, a second
\* reply of the target, or anything else.
ExtractorTold(message) ==
    /\ Len(extractor_log) + Len(extractor_mailbox) < MaxExtractorTold
    /\ extractor_mailbox' = Append(extractor_mailbox, message)
    /\ UNCHANGED <<state, scheduled_calculations, outcome, handling, log, killed>>
    /\ UNCHANGED <<cellVars, refVars, extractorVars, pathVars>>

\* The extractor handles the head of its mailbox.
ExtractorHandle ==
    /\ ExtractorLive
    /\ extractor_mailbox # <<>>
    /\ LET message == Head(extractor_mailbox)
           r == ExtractorReceive(message, channel)
       IN  /\ channel' = r.channel
           /\ extractor_killed' = r.kill_me
           /\ extractor_log' = Append(extractor_log, message)
           /\ extractor_mailbox' = Tail(extractor_mailbox)
    /\ UNCHANGED <<state, scheduled_calculations, outcome, handling, log, killed>>
    /\ UNCHANGED <<cellVars, refVars, pathVars>>

NextExtractor ==
    \/ \E message \in ExtractorMessages : ExtractorTold(message)
    \/ ExtractorHandle

SpecExtractor == Init /\ [][NextExtractor]_vars

\* ---------------------------------------------------- paths of children
\* derived.path.child(name).
ChildOf(name) ==
    /\ ~derived.panicked
    /\ derived.depth < MaxDepth
    /\ LET c == Child(derived.path, name)
       IN  derived' = [path |-> c.path, parent |-> derived.path, name |-> name,
                       panicked |-> c.panicked, depth |-> derived.depth + 1]
    /\ UNCHANGED <<futureVars, cellVars, refVars, extractorVars>>

NextPath == \E name \in Names : ChildOf(name)

InitPath ==
    /\ FutureNew
    /\ ActorOf
    /\ NoCall
    /\ FutureExtractorNew
    /\ \E p \in RootPaths : derived = Underived(p)

SpecPath == InitPath /\ [][NextPath]_vars

\* ---------------------------------------------------- operations on Refs
\* The Refs an operation may be called on: the receiver's, a distant stub,
\* the root's.
Refs == {ReceiverRef, DistantRef, CthulhuRef}

\* The record of one call: the operation, the Ref it was called on (for
\* tell_to, the sender in self and the target in ref) and whether it
\* panicked; count is the rank of the call.
Called(op, self, ref, panicked) ==
    [op |-> op, count |-> call.count + 1, self |-> self, ref |-> ref,
     panicked |-> panicked]

\* ref.receive(message, sender).
CallReceive(ref, sender, message) ==
    /\ call.count < MaxCalls
    /\ Len(told) < MaxTold
    /\ LET e == Envelope(message, sender, Len(told) + 1)
           d == RefReceive(ref, system_mailbox, mailbox, e)
       IN  /\ system_mailbox' = d.system_mailbox
           /\ mailbox' = d.mailbox
           /\ told' = IF d.mailbox = mailbox THEN told ELSE Append(told, e)
           /\ call' = Called("receive", sender, ref, d.panicked)
    /\ UNCHANGED <<actor, lifecycle, lock, executing, current, res, replies, delivered,
                   crash, picked, outstanding>>
    /\ UNCHANGED <<futureVars, extractorVars, pathVars>>

\* ref.receive_system_message(system_message).
CallReceiveSystemMessage(ref, system_message) ==
    /\ call.count < MaxCalls
    /\ outstanding < MaxSystemPending
    /\ LET d == ReceiveSystemMessage(ref, system_mailbox, mailbox, system_message)
       IN  /\ system_mailbox' = d.system_mailbox
           /\ mailbox' = d.mailbox
           /\ outstanding' = IF d.system_mailbox = system_mailbox
                             THEN outstanding ELSE outstanding + 1
           /\ call' = Called("receive_system_message", ref, ref, d.panicked)
    /\ UNCHANGED <<actor, lifecycle, lock, executing, current, res, replies, told,
                   delivered, crash, picked>>
    /\ UNCHANGED <<futureVars, extractorVars, pathVars>>

\* ref.handle() on a Ref that is not a cell's: a distant stub panics, the
\* root handles its own messages; the receiver's mailboxes are not touched.
CallHandle(ref) ==
    /\ call.count < MaxCalls
    /\ RefHandle(ref) # "handle_envelope"
    /\ call' = Called("handle", ref, ref, RefHandle(ref) = "panicked")
    /\ UNCHANGED <<cellVars, futureVars, extractorVars, pathVars>>

\* self.tell_to(to, message).
CallTellTo(self, to, message) ==
    /\ call.count < MaxCalls
    /\ Len(told) < MaxTold
    /\ LET id == Len(told) + 1
           d == TellTo(self, to, system_mailbox, mailbox, message, id)
       IN  /\ system_mailbox' = d.system_mailbox
           /\ mailbox' = d.mailbox
           /\ told' = IF d.mailbox = mailbox
                      THEN told ELSE Append(told, Envelope(message, self, id))
           /\ call' = [message |-> message] @@ Called("tell_to", self, to, d.panicked)
    /\ UNCHANGED <<actor, lifecycle, lock, executing, current, res, replies, delivered,
                   crash, picked, outstanding>>
    /\ UNCHANGED <<futureVars, extractorVars, pathVars>>

\* ref.path().
CallPath(ref) ==
    /\ call.count < MaxCalls
    /\ call' = [path |-> RefPath(ref)] @@ Called("path", ref, ref, FALSE)
    /\ UNCHANGED <<cellVars, futureVars, extractorVars, pathVars>>

NextRef ==
    \/ \E ref \in Refs, message \in {Get, Panic} : CallReceive(ref, SenderRef, message)
    \/ \E ref \in Refs, system_message \in SystemMessages :
            CallReceiveSystemMessage(ref, system_message)
    \/ \E ref \in Refs : CallHandle(ref)
    \/ \E self \in {SenderRef, DistantRef}, to \in Refs, message \in {Set(1), Panic} :
            CallTellTo(self, to, message)
    \/ \E ref \in Refs : CallPath(ref)
    \/ HandleBegin(1)
    \/ HandleEnd(1)

SpecRef == Init /\ [][NextRef]_vars

\* ------------------------------------------------------------------ claims
HandledComplete == log # <<>> /\ handling.msg.type = "Complete"
HandledCalculation == log # <<>> /\ handling.msg.type = "Calculation"

\* C1: only a Complete handled while Uncompleted succeeds, and then the
\* state is Computing(value); a Complete handled in any other state is a
\* fatal error that leaves the stored state and held value as they were.
C1_AtMostOnceCompletion ==
    HandledComplete =>
        /\ outcome = "returned" =>
                /\ handling.before = Uncompleted
                /\ state = Computing(handling.msg.value)
        /\ handling.before # Uncompleted =>
                /\ outcome = "panicked"
                /\ state = handling.before

\* The messages one ask puts in the Future's mailbox: the target's single
\* reply and the extractor's forwarding step.
AskMessages(v) == {Complete(v, TRUE), Calculation("Forward")}

\* C2: once the Future has handled the target's reply and the extractor's
\* forwarding step, in either order, no handling has failed or blocked and
\* the replied value is on its way to the extractor (hence to the caller).
C2_AskRoundTrip ==
    \A v \in Values :
        (Len(log) = 2 /\ {log[1], log[2]} = AskMessages(v)) =>
            /\ outcome = "returned"
            /\ extractor_mailbox = <<[type |-> "T", value |-> v]>>

\* C3: a Calculation(step) handled in Computing(value) applies step to
\* value exactly once and leaves the state the step returned.
C3_ApplyOnCompleted ==
    (HandledCalculation /\ handling.before.tag = "Computing") =>
        /\ handling.ran = <<<<handling.msg.func, handling.before.value>>>>
        /\ state = StepState(handling.msg.func, handling.before.value)

\* C4: a Complete handled by an Uncompleted Future with queued steps
\* succeeds, applies every queued step in queue order and empties the queue.
C4_QueuedStepsRun ==
    (HandledComplete /\ handling.msg.unique /\ handling.before = Uncompleted
        /\ handling.queue # <<>>) =>
        /\ outcome = "returned"
        /\ scheduled_calculations = <<>>
        /\ Len(handling.ran) = Len(handling.queue)
        /\ \A i \in 1..Len(handling.queue) : handling.ran[i][1] = handling.queue[i]

\* C5: a Calculation(step) handled while Uncompleted leaves the state
\* Uncompleted, runs no step and appends exactly that step at the tail of
\* the pending queue.
C5_ApplyOnUncompletedQueues ==
    (HandledCalculation /\ handling.before = Uncompleted) =>
        /\ outcome = "returned"
        /\ state = Uncompleted
        /\ handling.ran = <<>>
        /\ scheduled_calculations = Append(handling.queue, handling.msg.func)

\* A step was queued behind an earlier one.
C5_Witness ==
    /\ HandledCalculation
    /\ handling.before = Uncompleted
    /\ Len(handling.queue) >= 1
    /\ Len(scheduled_calculations) = Len(handling.queue) + 1

\* C6: a Calculation(step) handled while Terminated or Extracted is a
\* fatal error, runs no step and leaves the state Terminated (Extracted).
C6_NoWorkAfterTermination ==
    (HandledCalculation /\ handling.before \in {Terminated, Extracted}) =>
        /\ outcome = "panicked"
        /\ handling.ran = <<>>
        /\ state = handling.before

\* A Calculation was handled by an Extracted Future.
C6_Witness ==
    /\ HandledCalculation
    /\ handling.before = Extracted
    /\ outcome = "panicked"

\* The envelopes of q that sender sent.
From(q, sender) == SelectSeq(q, LAMBDA e : e.sender = sender)

IsPrefix(p, q) == Len(p) <= Len(q) /\ SubSeq(q, 1, Len(p)) = p

\* The Set messages handed to the receiver, in order.
SetsDelivered == SelectSeq(delivered, LAMBDA e : e.message.kind = "Set")

\* C7: the receiver's handler gets each sender's messages in the order that
\* sender told them, each at most once; the Sets the sender told in
\* increasing order are seen strictly increasing, and Res::Err is never sent.
C7_FifoPerActor ==
    /\ \A sender \in Senders :
            IsPrefix(From(delivered, sender), From(told, sender))
    /\ \A i, j \in 1..Len(delivered) :
            i < j => delivered[i].id # delivered[j].id
    /\ \A i, j \in 1..Len(SetsDelivered) :
            i < j => SetsDelivered[i].message.value < SetsDelivered[j].message.value
    /\ \A i \in 1..Len(res) : res[i] # "Err"

\* Two Sets of the sender went through the receiver's handler.
C7_Witness ==
    /\ Len(SetsDelivered) >= 2
    /\ lock = 0
    /\ actor.last = 2

\* A Panic was delivered before place i, and no Set between it and place i.
CrashedBefore(i) ==
    \E j \in 1..(i - 1) :
        /\ delivered[j].message.kind = "Panic"
        /\ \A k \in (j + 1)..(i - 1) : delivered[k].message.kind # "Set"

\* C8: a Get handled after a failure (and before any new Set) is answered
\* with the initial value 0; once the restart has been processed the cell
\* is Running again, and every message told to its Ref, before or after the
\* failure, has been queued or handed to the actor.
C8_RestartResetsState ==
    /\ \A i \in 1..Len(replies) :
            CrashedBefore(replies[i].at) => replies[i].value = 0
    /\ (crash.at > 0 /\ lock = 0 /\ system_mailbox = <<>>) => lifecycle = "Running"
    /\ crash.at > 0 => Len(delivered) + Len(mailbox) = Len(told)

\* Set(1), a failure, then a Get answered with 0.
C8_Witness ==
    \E i \in 1..Len(replies) :
        /\ CrashedBefore(replies[i].at)
        /\ \E j \in 1..replies[i].at : delivered[j].message.kind = "Set"
        /\ replies[i].value = 0

\* What was handed to the actor after the last failure, then what is queued.
AfterCrash == SubSeq(delivered, crash.at + 1, Len(delivered)) \o mailbox

\* C9: after a failure, the failing message is not handed to the actor again,
\* the messages queued at the failure are delivered next in their order, and
\* user messages only go to a Running (restarted) actor.
C9_MailboxSurvivesRestart ==
    /\ crash.at > 0 =>
            /\ IsPrefix(crash.pending, AfterCrash)
            /\ \A i \in 1..Len(AfterCrash) : AfterCrash[i].id # crash.id
            /\ delivered[crash.at].id = crash.id
    /\ picked.kind = "user" => picked.lifecycle = "Running"

\* Two messages were queued at a failure and both were handled after it.
C9_Witness ==
    /\ crash.at > 0
    /\ Len(crash.pending) >= 2
    /\ Len(delivered) = crash.at + Len(crash.pending)
    /\ lock = 0

\* C10: handle() picks a user message only when no system message is
\* pending: no system message sent to the cell is still unprocessed then.
C10_SystemMessagePriority ==
    picked.kind = "user" =>
        /\ picked.system_pending = 0
        /\ picked.outstanding = 0

\* A system message was picked while user messages were pending too.
C10_Witness ==
    /\ picked.kind = "system"
    /\ picked.user_pending >= 1
    /\ picked.system_pending >= 1

\* An operation was just called on a distant Ref (tell_to apart).
CalledOnDistant ==
    /\ call'.count # call.count
    /\ call'.op # "tell_to"
    /\ call'.ref.inner = "None"

\* C11: on a Ref without an inner target (a distant stub), receive,
\* receive_system_message and handle each fail fatally and neither enqueue
\* nor process anything in any mailbox; path() still returns the Ref's path.
C11_DistantRefFailsFatally ==
    [][CalledOnDistant =>
          /\ call'.op \in {"receive", "receive_system_message", "handle"}
                => call'.panicked
          /\ call'.op = "path"
                => ~call'.panicked /\ call'.path = DistantRef.path
          /\ UNCHANGED <<system_mailbox, mailbox, delivered, picked, current,
                         actor, told, outstanding>>]_vars

C11_Witness ==
    /\ call.op = "handle"
    /\ call.ref = DistantRef
    /\ call.panicked
    /\ mailbox # <<>>
    /\ system_mailbox # <<>>

\* The values of the messages of type T in a sequence of messages.
RECURSIVE ExpectedValues(_)
ExpectedValues(messages) ==
    IF messages = <<>> THEN <<>>
    ELSE IF Head(messages).type = "T"
         THEN <<Head(messages).value>> \o ExpectedValues(Tail(messages))
         ELSE ExpectedValues(Tail(messages))

\* C12: whatever messages reach the extractor (the target replying twice
\* included), at most one value goes through the asker's channel; it is sent
\* only on handling a forwarded value of the expected type, and the
\* extractor then terminates itself.
C12_ChannelSatisfiedOnce ==
    /\ Len(channel) <= 1
    /\ channel # <<>> =>
          /\ extractor_killed
          /\ extractor_log # <<>>
          /\ extractor_log[Len(extractor_log)] = [type |-> "T", value |-> channel[1]]
    /\ channel = <<>> => ExpectedValues(extractor_log) = <<>>

C12_Witness ==
    /\ Len(channel) = 1
    /\ extractor_killed
    /\ \E i \in 1..Len(extractor_mailbox) : extractor_mailbox[i].type = "T"

\* C19: a message that is not of the expected type is ignored: nothing is
\* sent, the extractor does not terminate, and a later message of the
\* expected type is still received and sent.
C19_MismatchIgnored ==
    /\ ExpectedValues(extractor_log) = <<>> => channel = <<>> /\ ~extractor_killed
    /\ \A i \in 1..Len(extractor_log) :
          (extractor_log[i].type = "T"
             /\ \A j \in 1..(i - 1) : extractor_log[j].type = "U")
            => channel = <<extractor_log[i].value>>

C19_Witness ==
    /\ Len(extractor_log) >= 2
    /\ extractor_log[1].type = "U"
    /\ extractor_log[Len(extractor_log)].type = "T"
    /\ channel = <<extractor_log[Len(extractor_log)].value>>

\* C13: no operation of a Future blocks indefinitely: every handling of a
\* message by a Future comes to an end.
C13_NoFutureOperationBlocks ==
    outcome # "deadlocked"

\* C16: the state of a Future moves only along the edges of its table: it
\* never goes back to Uncompleted, never leaves Terminated or Extracted,
\* and the state slot is never left empty when a handling ends.
C16_StateEdges ==
    (log # <<>> /\ outcome # "deadlocked") =>
        /\ state.tag # "None"
        /\ handling.before.tag # "Uncompleted" => state.tag # "Uncompleted"
        /\ handling.before.tag \in {"Terminated", "Extracted"}
              => state = handling.before

\* C17: while a handling holds the lock of the state, no step executes,
\* kill_me is not invoked and the same lock is not acquired again.
C17_LockDiscipline ==
    handling.under_lock = {}

C14_PerActorMutualExclusion ==
    /\ Cardinality(executing) <= 1
    /\ \A w \in executing : lock = w

C14_Witness ==
    /\ executing # {}
    /\ system_mailbox # <<>> \/ mailbox # <<>>
    /\ Len(delivered) >= 1

\* C15: p.child(x) of a Local path p is a Local path whose logical path is
\* that of p, then "/", then x, so that "/a".child("x").child("y") is
\* "/a/x/y"; child on a Distant path always fails fatally.
C15_ChildPathDerivation ==
    derived.depth > 0 =>
        /\ derived.parent.variant = "Local" =>
              /\ ~derived.panicked
              /\ derived.path.variant = "Local"
              /\ LogicalPath(derived.path)
                    = LogicalPath(derived.parent) \o "/" \o derived.name
        /\ (derived.parent = NewLocal("/a/x") /\ derived.name = "y")
              => derived.path = NewLocal("/a/x/y")
        /\ derived.parent.variant = "Distant" => derived.panicked

C15_Witness ==
    /\ derived.depth = 2
    /\ derived.parent = NewLocal("/a/x")
    /\ LogicalPath(derived.path) = "/a/x/y"

\* tell_to was just called.
CalledTellTo ==
    /\ call'.count # call.count
    /\ call'.op = "tell_to"

\* C20: tell_to fails fatally when the sending Ref has no inner target, and
\* then nothing is delivered, even to a live target; when the sender has an
\* inner target, the target's receive is called exactly once, with the
\* message and a clone of the sender's Ref.
C20_TellToRequiresLiveSender ==
    [][CalledTellTo =>
          /\ call'.self.inner = "None" =>
                /\ call'.panicked
                /\ UNCHANGED <<system_mailbox, mailbox, told, delivered>>
          /\ (call'.self.inner # "None" /\ call'.ref = ReceiverRef) =>
                /\ ~call'.panicked
                /\ mailbox' = Append(mailbox,
                        Envelope(call'.message, call'.self, Len(told) + 1))
                /\ UNCHANGED system_mailbox
          /\ (call'.self.inner # "None" /\ call'.ref = DistantRef) =>
                /\ call'.panicked
                /\ UNCHANGED <<system_mailbox, mailbox>>]_vars

C20_Witness ==
    /\ call.op = "tell_to"
    /\ call.self = DistantRef
    /\ call.ref = ReceiverRef
    /\ call.panicked
    /\ \E i \in 1..Len(told) : told[i].sender = SenderRef

====
